---- MODULE Spec2Model ----
(***************************************************************************)
(* The container entry point bundles/runner/02_entrypoint.py: dispatch,    *)
(* the three launchers (run_shell, start_service, run_cron) and the two    *)
(* context managers ChildSubReaper and GraceFulShutdown, together with the *)
(* operating-system environment they act on: the process tree below the    *)
(* supervisor, reparenting of orphans, and asynchronous SIGTERM delivery.  *)
(*                                                                         *)
(* The script is Python 2 (it imports ConfigParser).  The library calls    *)
(* are modelled with their Python 2.7 behaviour:                           *)
(*   Popen.wait()      waitpid(pid), retried on EINTR;                     *)
(*   Popen.terminate() os.kill(pid, SIGTERM), whatever returncode is;      *)
(*   os.wait()         wait(): ECHILD without children, EINTR when a       *)
(*                     Python-level handler ran while it was blocked;      *)
(*   a Python-level signal handler runs in the main thread at a statement  *)
(*   boundary, and an exception it raises propagates from there.           *)
(***************************************************************************)
EXTENDS Integers, Sequences, FiniteSets, TLC

(* ------------------------------ bounds -------------------------------- *)

\* Process slots: the launcher's child and the descendants that can be forked.
MaxProcs == 3

\* SIGTERM deliveries to the supervisor.
MaxSigterm == 2

\* Successive run_cron invocations of a caller that enters the scopes again.
MaxRounds == 2

\* Process slots of such a caller.
MaxScopeProcs == 2

(* --------------------------- program constants ------------------------ *)

SIGTERM == 15

PR_SET_CHILD_SUBREAPER == 36

SCRIPT_DIR == "/scripts"

VARIABLES
  argv,         \* the argument vector given to dispatch
  scripts,      \* names of the files that exist in SCRIPT_DIR
  pc,           \* the supervisor's position
  callargs,     \* the vector the launcher is called with: fn(*args)
  invoked,      \* launchers called so far, in order
  exc,          \* the exception propagating in the supervisor, or "none"
  exitstatus,   \* the supervisor's exit status, -1 while it runs
  subreaper,    \* the process-wide PR_SET_CHILD_SUBREAPER flag
  handler,      \* the process-wide SIGTERM handler
  old_handler,  \* GraceFulShutdown.old_handler
  process,      \* GraceFulShutdown.process: the child's pid, 0 for None
  returncode,   \* Popen.returncode of the launcher's child, -1 for None
  st,           \* pid -> "none" | "running" | "zombie" | "reaped" ("off": no slot)
  parent,       \* pid -> pid of the process that forked it, 0: the supervisor
  reaper,       \* pid -> "parent" | "sup" | "init": who can reap it
  code,         \* pid -> exit code, set when the process exits
  spawned,      \* the spawns of this launcher call: command, cwd, flag, handler
  rendered,     \* configuration files written by templatize, in order
  service,      \* context['service'] of start_service, "" before it is set
  log,          \* the lines wait_for_children logged in this launcher call
  sigLog,       \* one record per SIGTERM delivered to the supervisor
  rounds,       \* run_cron invocations started
  handler0,     \* the SIGTERM handler in place before the program touched it
  flag0,        \* the subreaper flag before the program touched it
  others        \* the handlers of the signals other than SIGTERM

vars == <<argv, scripts, pc, callargs, invoked, exc, exitstatus, subreaper,
          handler, old_handler, process, returncode, st, parent, reaper, code,
          spawned, rendered, service, log, sigLog, rounds, handler0, flag0, others>>

progVars == <<argv, scripts, pc, callargs, invoked, exc, exitstatus, subreaper,
              handler, old_handler, process, returncode, spawned, rendered,
              service, log, rounds, handler0, flag0, others>>

Procs == 1..MaxProcs

ExitCodes == {0, 1}

\* Argument vectors handed to the entry point.
ArgVectors ==
  { <<>>, <<"cron">>, <<"cron", "now">>, <<"start", "app">>, <<"start">>,
    <<"migrate">>, <<"migrate", "--fake">>, <<"start", "api", "extra">> }

\* The dispositions a freshly exec'ed process can have for SIGTERM.
InheritedHandlers == {"SIG_DFL", "SIG_IGN"}

\* Signals besides SIGTERM whose handler a program can set: SIGHUP, SIGINT.
OtherSignals == {1, 2}

Signals == OtherSignals \cup {SIGTERM}

\* Their handlers when the interpreter starts: SIGINT raises
\* KeyboardInterrupt, the others have the default disposition.
PythonDispositions ==
  [s \in OtherSignals |-> IF s = 2 THEN "default_int_handler" ELSE "SIG_DFL"]

\* A caller that is itself Python code may have installed a callable.
CallerHandlers == {"SIG_DFL", "SIG_IGN", "PY"}


(* ------------------------- the process table -------------------------- *)

Alive == pc \notin {"exited", "killed"}

Live(p) == st[p] \in {"running", "zombie"}

\* Variant: os.wait() would only see the processes the supervisor started.
SupChildren_direct == {p \in Procs : reaper[p] = "sup" /\ Live(p) /\ parent[p] = 0}

\* The processes os.wait() of the supervisor can return: its own children and
\* the orphans reparented to it.
SupChildren == {p \in Procs : reaper[p] = "sup" /\ Live(p)}

SupZombies == {p \in SupChildren : st[p] = "zombie"}

FreePids == {p \in Procs : st[p] = "none"}

\* The pid the next fork gets.
NextPid == CHOOSE p \in FreePids : \A q \in FreePids : p <= q

\* wait() sleeps: there are children and none of them has exited yet.
Blocked == SupChildren # {} /\ SupZombies = {}

\* Variant: the loop would end as soon as no exited child is left to collect.
os_wait_no_zombie == SupZombies = {}

\* os.wait() raises OSError(ECHILD): the supervisor has no child left.
os_wait_ECHILD == SupChildren = {}

\* A wait call collects an exited process: its entry in the process table,
\* exit status included, is released.
Reap(q) ==
  /\ st' = [st EXCEPT ![q] = "reaped"]
  /\ code' = [code EXCEPT ![q] = 0]

\* A process forks a child of its own.
Fork(p) ==
  /\ Alive
  /\ st[p] = "running"
  /\ FreePids # {}
  /\ st' = [st EXCEPT ![NextPid] = "running"]
  /\ parent' = [parent EXCEPT ![NextPid] = p]
  /\ reaper' = [reaper EXCEPT ![NextPid] = "parent"]
  /\ UNCHANGED <<code, sigLog>>
  /\ UNCHANGED progVars

\* Whether the supervisor is still an ancestor of p (p was not handed to init).
RECURSIVE InSupTree(_)
InSupTree(p) ==
  IF reaper[p] = "sup" THEN TRUE
  ELSE IF reaper[p] = "init" THEN FALSE
  ELSE InSupTree(parent[p])

\* Variant: no subreaping, every orphan goes to init.
NewReaper_init(p) == "init"

\* Who reaps the children of p when p exits: the nearest subreaper among its
\* ancestors, which is the supervisor when its flag is set, otherwise init.
NewReaper(p) == IF subreaper /\ InSupTree(p) THEN "sup" ELSE "init"

\* A process exits with code c.  It stays a zombie until its reaper waits for
\* it (init does so at once); its children are reparented.
Exit(p, c) ==
  /\ Alive
  /\ st[p] = "running"
  /\ code' = [q \in Procs |->
                IF q = p THEN (IF reaper[p] = "init" THEN 0 ELSE c)
                ELSE IF parent[q] = p /\ reaper[q] = "parent"
                        /\ st[q] = "zombie" /\ NewReaper(p) = "init"
                     THEN 0 ELSE code[q]]
  /\ reaper' = [q \in Procs |->
                  IF parent[q] = p /\ reaper[q] = "parent" /\ Live(q)
                  THEN NewReaper(p) ELSE reaper[q]]
  /\ st' = [q \in Procs |->
              IF q = p
              THEN (IF reaper[p] = "init" THEN "reaped" ELSE "zombie")
              ELSE IF parent[q] = p /\ reaper[q] = "parent"
                      /\ st[q] = "zombie" /\ NewReaper(p) = "init"
                   THEN "reaped" ELSE st[q]]
  /\ UNCHANGED <<parent, sigLog>>
  /\ UNCHANGED progVars

\* A descendant reaps one of its own exited children (cron reaping a job).
ParentReap(q) ==
  /\ Alive
  /\ st[q] = "zombie"
  /\ reaper[q] = "parent"
  /\ st[parent[q]] = "running"
  /\ Reap(q)
  /\ UNCHANGED <<parent, reaper, sigLog>>
  /\ UNCHANGED progVars


(* ----------------------------- exceptions ----------------------------- *)

\* Variant: an exception in the body of the inner with leaves it without
\* GraceFulShutdown.__exit__ being run.
Unwind_skips_exit(at) ==
  CASE at \in {"gs_getsignal", "gs_signal", "gs_popen", "gs_assign"} -> "csr_wait"
    [] at \in {"p_wait", "gs_exit"} -> "csr_wait"
    [] OTHER -> "ret"

\* Variant: an exception in the body of the inner with starts the daemon anew.
Unwind_restart(at) ==
  CASE at \in {"gs_getsignal", "gs_signal", "gs_popen", "gs_assign"} -> "csr_wait"
    [] at \in {"p_wait", "gs_exit"} -> "gs_popen"
    [] OTHER -> "ret"

\* Where control goes when an exception is raised at position `at`:
\*   inside GraceFulShutdown.__enter__ the inner scope was never entered, so
\*     only ChildSubReaper.__exit__ runs (line 314);
\*   inside the body of the inner with, GraceFulShutdown.__exit__ runs first;
\*   inside ChildSubReaper.__exit__ the rest of __exit__ is skipped;
\*   anywhere else nothing catches it and it leaves the launcher.
Unwind(at) ==
  CASE at \in {"gs_getsignal", "gs_signal", "gs_popen", "gs_assign"} -> "csr_wait"
    [] at \in {"p_wait", "gs_exit"} -> "gs_exit"
    [] OTHER -> "ret"

(* ------------------------------ dispatch ------------------------------ *)

\* Variant: the two entries of service_mapping exchanged.
service_mapping_swapped(name) ==
  CASE name = "cron" -> "start_service"
    [] name = "start" -> "run_cron"
    [] OTHER -> "run_shell"

\* service_mapping.get(name, run_shell)
service_mapping_get(name) ==
  CASE name = "cron" -> "run_cron"
    [] name = "start" -> "start_service"
    [] OTHER -> "run_shell"

\* args = args or ['/bin/bash']
dispatch_args(args) == IF args = <<>> THEN <<"/bin/bash">> ELSE args

\* fn = service_mapping.get(args[0], run_shell)
dispatch_fn(args) == service_mapping_get(dispatch_args(args)[1])

\* Variant: the launchers would get the profile keyword among their *args.
star_args_full(fn, v) == v

\* What fn(*args) binds to the *args of the launcher: run_cron(command, *args)
\* and start_service(command, *args) take the first element as command,
\* run_shell(*args) takes them all.
star_args(fn, v) == IF fn \in {"run_cron", "start_service"} THEN Tail(v) ELSE v

\* The first statement of each launcher.
Entry(fn) ==
  CASE fn = "run_cron" -> "csr_enter"
    [] fn = "start_service" -> "ss_context"
    [] OTHER -> "rs_spawn"

\* dispatch(args): fn(*args)
dispatch ==
  /\ pc = "dispatch"
  /\ callargs' = dispatch_args(argv)
  /\ invoked' = Append(invoked, [fn |-> dispatch_fn(argv), args |-> dispatch_args(argv)])
  /\ pc' = Entry(dispatch_fn(argv))
  /\ UNCHANGED <<argv, scripts, exc, exitstatus, subreaper, handler, old_handler,
                 process, returncode, st, parent, reaper, code, spawned, rendered,
                 service, log, sigLog, rounds, handler0, flag0, others>>

\* main returns after dispatch, or the exception ends the interpreter.
main_exit ==
  /\ pc = "ret"
  /\ pc' = "exited"
  /\ exitstatus' = IF exc = "none" THEN 0 ELSE 1
  /\ UNCHANGED <<argv, scripts, callargs, invoked, exc, subreaper, handler,
                 old_handler, process, returncode, st, parent, reaper, code,
                 spawned, rendered, service, log, sigLog, rounds, handler0, flag0, others>>

(* ------------------------------- spawn -------------------------------- *)

\* What a spawn records: the command vector, the working directory, and the
\* process-wide state at the instant of the fork.
SpawnRecord(cmd, cwd, pid) ==
  [cmd |-> cmd, cwd |-> cwd, pid |-> pid, flag |-> subreaper, handler |-> handler,
   by |-> pc]

\* subprocess.Popen(...) succeeding: the child runs as a child of the supervisor.
PopenOk(cmd, cwd) ==
  /\ FreePids # {}
  /\ st' = [st EXCEPT ![NextPid] = "running"]
  /\ parent' = [parent EXCEPT ![NextPid] = 0]
  /\ reaper' = [reaper EXCEPT ![NextPid] = "sup"]
  /\ spawned' = Append(spawned, SpawnRecord(cmd, cwd, NextPid))


\* Variant: the failure to start the executable is passed over.
PopenFails_absorbed ==
  /\ exc' = exc
  /\ pc' = Unwind(pc)
  /\ UNCHANGED <<st, parent, reaper, spawned>>

\* subprocess.Popen(...) raising OSError: the executable cannot be started.
PopenFails ==
  /\ exc' = "OSError"
  /\ pc' = Unwind(pc)
  /\ UNCHANGED <<st, parent, reaper, spawned>>

\* The pid of the child the launcher spawned last.
ChildPid == spawned[Len(spawned)].pid

\* Variant: poll() in place of wait(), which returns at once.
PopenPoll(pid) ==
  IF st[pid] = "zombie"
  THEN Reap(pid) /\ returncode' = code[pid]
  ELSE UNCHANGED <<st, code, returncode>>

\* Popen.wait(): waitpid on the child, which returns once it has exited.
PopenWait(pid) ==
  /\ st[pid] = "zombie"
  /\ Reap(pid)
  /\ returncode' = code[pid]

(* ------------------------------ run_shell ----------------------------- *)

\* Variant: the first argument is joined to SCRIPT_DIR whether the file
\* exists or not.
script_args_always_join(args) ==
  [i \in 1..Len(args) |-> IF i = 1 THEN <<SCRIPT_DIR, args[1]>> ELSE <<args[i]>>]

\* script_path = os.path.join(SCRIPT_DIR, args[0]);
\* if os.path.exists(script_path): args[0] = script_path
\* A path is the sequence of its components.
script_args(args) ==
  [i \in 1..Len(args) |->
     IF i = 1 /\ args[1] \in scripts THEN <<SCRIPT_DIR, args[1]>> ELSE <<args[i]>>]

\* process = subprocess.Popen(args, cwd=SCRIPT_DIR)
run_shell_spawn ==
  /\ pc = "rs_spawn"
  /\ \/ /\ PopenOk(script_args(star_args("run_shell", callargs)), SCRIPT_DIR)
        /\ pc' = "rs_wait"
        /\ UNCHANGED exc
     \/ PopenFails
  /\ UNCHANGED <<argv, scripts, callargs, invoked, exitstatus, subreaper, handler,
                 old_handler, process, returncode, code, rendered, service, log,
                 sigLog, rounds, handler0, flag0, others>>

\* process.wait(): the status is not looked at.
run_shell_wait ==
  /\ pc = "rs_wait"
  /\ PopenWait(ChildPid)
  /\ pc' = "ret"
  /\ UNCHANGED <<argv, scripts, callargs, invoked, exc, exitstatus, subreaper,
                 handler, old_handler, process, parent, reaper, spawned,
                 rendered, service, log, sigLog, rounds, handler0, flag0, others>>

(* ---------------------------- start_service --------------------------- *)

\* The files start_service renders, in the order of lines 302, 303 and 306.
ServiceFiles == <<"uwsgi.ini", "nginx.conf", "supervisord.conf">>

\* start_service(command, *args): context['service'] = args[0]
start_service_context ==
  /\ pc = "ss_context"
  /\ IF Len(star_args("start_service", callargs)) < 1
     THEN /\ exc' = "IndexError"
          /\ pc' = Unwind(pc)
          /\ UNCHANGED service
     ELSE /\ service' = star_args("start_service", callargs)[1]
          /\ pc' = "ss_templatize"
          /\ UNCHANGED exc
  /\ UNCHANGED <<argv, scripts, callargs, invoked, exitstatus, subreaper, handler,
                 old_handler, process, returncode, st, parent, reaper, code,
                 spawned, rendered, log, sigLog, rounds, handler0, flag0, others>>

\* templatize(...) for the next of the three files.
start_service_templatize ==
  /\ pc = "ss_templatize"
  /\ rendered' = Append(rendered, ServiceFiles[Len(rendered) + 1])
  /\ pc' = IF Len(rendered) + 1 = Len(ServiceFiles) THEN "ss_execute" ELSE "ss_templatize"
  /\ UNCHANGED <<argv, scripts, callargs, invoked, exc, exitstatus, subreaper,
                 handler, old_handler, process, returncode, st, parent, reaper,
                 code, spawned, service, log, sigLog, rounds, handler0, flag0, others>>

\* execute('supervisord', '-c', supervisord_config): check_call starts the command.
execute_spawn ==
  /\ pc = "ss_execute"
  /\ \/ /\ PopenOk(<<(<<"supervisord">>), (<<"-c">>),
                     (<<"~", "etc", "supervisord.conf">>)>>, "")
        /\ pc' = "ss_check_call"
        /\ UNCHANGED exc
     \/ PopenFails
  /\ UNCHANGED <<argv, scripts, callargs, invoked, exitstatus, subreaper, handler,
                 old_handler, process, returncode, code, rendered, service, log,
                 sigLog, rounds, handler0, flag0, others>>

\* subprocess.check_call: what it raises for the status the command ended with.
check_call(retcode) == IF retcode # 0 THEN "CalledProcessError" ELSE "none"

\* Variant: the except clause raises the error again.
execute_reraise(e) == e

\* try: ... except subprocess.CalledProcessError: pass -- what leaves execute.
execute_except(e) == IF e = "CalledProcessError" THEN "none" ELSE e

\* check_call waits for the command; CalledProcessError is passed over.
execute_wait ==
  /\ pc = "ss_check_call"
  /\ PopenWait(ChildPid)
  /\ exc' = execute_except(check_call(code[ChildPid]))
  /\ pc' = IF exc' = "none" THEN "ret" ELSE Unwind(pc)
  /\ UNCHANGED <<argv, scripts, callargs, invoked, exitstatus, subreaper,
                 handler, old_handler, process, parent, reaper, spawned,
                 rendered, service, log, sigLog, rounds, handler0, flag0, others>>


(* --------------------------- ChildSubReaper --------------------------- *)

\* Variant: the argument is ignored and the flag always set.
prctl_always_set(activate) == TRUE

\* Variant: prctl called with another option, the flag stays as it is.
prctl_other_option(activate) == subreaper

\* libc.prctl(PR_SET_CHILD_SUBREAPER, 1 if activate else 0): the flag's new value.
prctl_set_child_sub_reaper(activate) == activate

\* ChildSubReaper.__enter__
ChildSubReaper_enter ==
  /\ pc = "csr_enter"
  /\ subreaper' = prctl_set_child_sub_reaper(TRUE)
  /\ pc' = "gs_getsignal"
  /\ UNCHANGED <<argv, scripts, callargs, invoked, exc, exitstatus, handler,
                 old_handler, process, returncode, st, parent, reaper, code,
                 spawned, rendered, service, log, sigLog, rounds, handler0, flag0, others>>

\* Variant: an interrupted os.wait() is called again.
wait_for_children_retry(errno) == IF errno = "EINTR" THEN "continue" ELSE "break"

\* except OSError: ... break -- whatever the errno of the OSError is.
wait_for_children_except(errno) == "break"

\* One turn of the loop of wait_for_children: os.wait() returns an exited
\* child, which is logged, or raises OSError(ECHILD), which ends the loop.
\* With children that all still run the call sleeps.
wait_for_children ==
  /\ pc = "csr_wait"
  /\ \/ \E q \in SupZombies :
          /\ Reap(q)
          /\ log' = Append(log, [line |-> "terminated", pid |-> q, status |-> code[q]])
          /\ pc' = "csr_wait"
     \/ /\ os_wait_ECHILD
        /\ wait_for_children_except("ECHILD") = "break"
        /\ log' = Append(log, [line |-> "all", pid |-> 0, status |-> 0])
        /\ pc' = "csr_unset"
        /\ UNCHANGED <<st, code>>
  /\ UNCHANGED <<argv, scripts, callargs, invoked, exc, exitstatus, subreaper,
                 handler, old_handler, process, returncode, parent, reaper,
                 spawned, rendered, service, sigLog, rounds, handler0, flag0, others>>

\* ChildSubReaper.__exit__ after the loop: prctl_set_child_sub_reaper(False).
\* __exit__ returns None, so an exception of the body goes on propagating.
ChildSubReaper_exit ==
  /\ pc = "csr_unset"
  /\ subreaper' = prctl_set_child_sub_reaper(FALSE)
  /\ pc' = "csr_done"
  /\ UNCHANGED <<argv, scripts, callargs, invoked, exc, exitstatus, handler,
                 old_handler, process, returncode, st, parent, reaper, code,
                 spawned, rendered, service, log, sigLog, rounds, handler0, flag0, others>>

\* The with statement of line 314 is left: run_cron returns, or the
\* exception of the body goes on to the caller.
run_cron_return ==
  /\ pc = "csr_done"
  /\ pc' = "ret"
  /\ UNCHANGED <<argv, scripts, callargs, invoked, exc, exitstatus, subreaper,
                 handler, old_handler, process, returncode, st, parent, reaper,
                 code, spawned, rendered, service, log, sigLog, rounds, handler0,
                 flag0, others>>

(* -------------------------- GraceFulShutdown -------------------------- *)

\* os.kill(pid, SIGTERM) on a child in state cst: a process that was waited
\* for has no pid any more.
os_kill(cst) == IF cst \in {"running", "zombie"} THEN "sent" ELSE "ESRCH"

\* self.process.terminate(), self.process being pid proc or None (0).
terminate(proc, cst) == IF proc = 0 THEN "AttributeError" ELSE os_kill(cst)

\* Variant: the test of the signal code inverted.
graceful_shutdown_handler_inverted(signal_code, proc, cst) ==
  IF signal_code # SIGTERM THEN terminate(proc, cst) ELSE "returned"

\* graceful_shutdown_handler(signal_code, _frame)
graceful_shutdown_handler(signal_code, proc, cst) ==
  IF signal_code = SIGTERM THEN terminate(proc, cst) ELSE "returned"

\* The handler of each signal.
Disposition(s) == IF s = SIGTERM THEN handler ELSE others[s]

\* Variant: the handler is installed for every signal.
signal_signal_all(signalnum, h) == [s \in Signals |-> h]

\* signal.signal(signalnum, h): the handlers of all signals afterwards.
signal_signal(signalnum, h) ==
  [s \in Signals |-> IF s = signalnum THEN h ELSE Disposition(s)]

\* Variant: the default disposition is saved, not the one in place.
signal_getsignal_default == "SIG_DFL"

\* Variant: the handler is read after the forwarding handler was installed.
signal_getsignal_after_install == "FWD"

\* signal.getsignal(self.SIGTERM)
signal_getsignal == handler

\* __init__, and the first line of __enter__:
\* self.old_handler = signal.getsignal(self.SIGTERM)
GraceFulShutdown_getsignal ==
  /\ pc = "gs_getsignal"
  /\ process' = 0
  /\ old_handler' = signal_getsignal
  /\ pc' = "gs_signal"
  /\ UNCHANGED <<argv, scripts, callargs, invoked, exc, exitstatus, subreaper,
                 handler, returncode, st, parent, reaper, code, spawned, rendered,
                 service, log, sigLog, rounds, handler0, flag0, others>>

\* signal.signal(self.SIGTERM, self.graceful_shutdown_handler)
GraceFulShutdown_signal ==
  /\ pc = "gs_signal"
  /\ handler' = signal_signal(SIGTERM, "FWD")[SIGTERM]
  /\ others' = [s \in OtherSignals |-> signal_signal(SIGTERM, "FWD")[s]]
  /\ pc' = "gs_popen"
  /\ UNCHANGED <<argv, scripts, callargs, invoked, exc, exitstatus, subreaper,
                 old_handler, process, returncode, st, parent, reaper, code,
                 spawned, rendered, service, log, sigLog, rounds, handler0, flag0>>

\* subprocess.Popen(*self.args, **self.kwargs): the right-hand side of line 97.
GraceFulShutdown_popen ==
  /\ pc = "gs_popen"
  /\ \/ /\ PopenOk(<<(<<"sudo">>), (<<"cron">>), (<<"-f">>)>>, "")
        /\ pc' = "gs_assign"
        /\ UNCHANGED exc
     \/ PopenFails
  /\ UNCHANGED <<argv, scripts, callargs, invoked, exitstatus, subreaper, handler,
                 old_handler, process, returncode, code, rendered, service, log,
                 sigLog, rounds, handler0, flag0, others>>

\* self.process = <the Popen object>; return self.process
GraceFulShutdown_assign ==
  /\ pc = "gs_assign"
  /\ process' = ChildPid
  /\ pc' = "p_wait"
  /\ UNCHANGED <<argv, scripts, callargs, invoked, exc, exitstatus, subreaper,
                 handler, old_handler, returncode, st, parent, reaper, code,
                 spawned, rendered, service, log, sigLog, rounds, handler0, flag0, others>>

\* p.wait() in the body of run_cron
run_cron_wait ==
  /\ pc = "p_wait"
  /\ PopenWait(process)
  /\ pc' = "gs_exit"
  /\ UNCHANGED <<argv, scripts, callargs, invoked, exc, exitstatus, subreaper,
                 handler, old_handler, process, parent, reaper, spawned,
                 rendered, service, log, sigLog, rounds, handler0, flag0, others>>

\* GraceFulShutdown.__exit__: signal.signal(self.SIGTERM, self.old_handler)
GraceFulShutdown_exit ==
  /\ pc = "gs_exit"
  /\ handler' = signal_signal(SIGTERM, old_handler)[SIGTERM]
  /\ others' = [s \in OtherSignals |-> signal_signal(SIGTERM, old_handler)[s]]
  /\ pc' = "csr_wait"
  /\ UNCHANGED <<argv, scripts, callargs, invoked, exc, exitstatus, subreaper,
                 old_handler, process, returncode, st, parent, reaper, code,
                 spawned, rendered, service, log, sigLog, rounds, handler0, flag0>>


(* ------------------------- SIGTERM delivery --------------------------- *)

\* What the installed disposition does with a SIGTERM.  The default
\* disposition ends the process, except for the init of a pid namespace,
\* for which the kernel drops the signal.
HandlerResults(h, proc, cst) ==
  CASE h = "SIG_IGN" -> {"ignored"}
    [] h = "SIG_DFL" -> {"killed", "ignored"}
    [] h = "PY" -> {"returned"}
    [] h = "FWD" -> {graceful_shutdown_handler(SIGTERM, proc, cst)}

\* The state of the process GraceFulShutdown.process names.
ChildState == IF process = 0 THEN "unset" ELSE st[process]

\* A SIGTERM reaches the supervisor.  A handler that raises makes the
\* exception propagate from the statement the supervisor is at; a handler
\* that returns while os.wait() sleeps makes os.wait() raise OSError(EINTR),
\* which wait_for_children takes for the end of the loop.
Sigterm ==
  /\ Alive
  /\ Len(sigLog) < MaxSigterm
  /\ \E out \in HandlerResults(handler, process, ChildState), eintr \in BOOLEAN :
       /\ eintr => (out \in {"returned", "sent"} /\ pc = "csr_wait" /\ Blocked)
       /\ sigLog' = Append(sigLog, [h |-> handler, cst |-> ChildState,
                                    out |-> out, eintr |-> eintr])
       /\ CASE out = "killed" ->
                 /\ pc' = "killed"
                 /\ exitstatus' = 128 + SIGTERM
                 /\ UNCHANGED <<exc, log>>
            [] out \in {"AttributeError", "ESRCH"} ->
                 /\ exc' = IF out = "ESRCH" THEN "OSError" ELSE out
                 /\ pc' = Unwind(pc)
                 /\ UNCHANGED <<exitstatus, log>>
            [] eintr /\ wait_for_children_except("EINTR") = "break" ->
                 /\ log' = Append(log, [line |-> "all", pid |-> 0, status |-> 0])
                 /\ pc' = "csr_unset"
                 /\ UNCHANGED <<exc, exitstatus>>
            [] OTHER -> UNCHANGED <<pc, exc, exitstatus, log>>
  /\ UNCHANGED <<argv, scripts, callargs, invoked, subreaper, handler, old_handler,
                 process, returncode, st, parent, reaper, code, spawned, rendered,
                 service, rounds, handler0, flag0, others>>

(* --------------------------- specifications --------------------------- *)

NoProcs == [p \in Procs |-> "none"]

\* The entry point as the container starts it: main has done its set-up and
\* calls dispatch(args.args).
Init ==
  /\ argv \in ArgVectors
  /\ scripts \in {{}, {"migrate"}}
  /\ pc = "dispatch"
  /\ callargs = <<>>
  /\ invoked = <<>>
  /\ exc = "none"
  /\ exitstatus = -1
  /\ flag0 = FALSE
  /\ subreaper = flag0
  /\ handler0 \in InheritedHandlers
  /\ handler = handler0
  /\ old_handler = "None"
  /\ process = 0
  /\ returncode = -1
  /\ st = NoProcs
  /\ parent = [p \in Procs |-> 0]
  /\ reaper = [p \in Procs |-> "sup"]
  /\ code = [p \in Procs |-> 0]
  /\ spawned = <<>>
  /\ rendered = <<>>
  /\ service = ""
  /\ log = <<>>
  /\ sigLog = <<>>
  /\ rounds = 1
  /\ others = PythonDispositions

Environment ==
  \/ Sigterm
  \/ \E p \in Procs : Fork(p)
  \/ \E p \in Procs, c \in ExitCodes : Exit(p, c)
  \/ \E q \in Procs : ParentReap(q)

Next ==
  \/ dispatch
  \/ run_shell_spawn
  \/ run_shell_wait
  \/ start_service_context
  \/ start_service_templatize
  \/ execute_spawn
  \/ execute_wait
  \/ ChildSubReaper_enter
  \/ GraceFulShutdown_getsignal
  \/ GraceFulShutdown_signal
  \/ GraceFulShutdown_popen
  \/ GraceFulShutdown_assign
  \/ run_cron_wait
  \/ GraceFulShutdown_exit
  \/ wait_for_children
  \/ ChildSubReaper_exit
  \/ run_cron_return
  \/ main_exit
  \/ Environment

Spec == Init /\ [][Next]_vars


\* The steps of the supervisor itself.
Program ==
  \/ dispatch
  \/ run_shell_spawn
  \/ run_shell_wait
  \/ start_service_context
  \/ start_service_templatize
  \/ execute_spawn
  \/ execute_wait
  \/ ChildSubReaper_enter
  \/ GraceFulShutdown_getsignal
  \/ GraceFulShutdown_signal
  \/ GraceFulShutdown_popen
  \/ GraceFulShutdown_assign
  \/ run_cron_wait
  \/ GraceFulShutdown_exit
  \/ wait_for_children
  \/ ChildSubReaper_exit
  \/ run_cron_return
  \/ main_exit

\* The entry point where the interpreter runs on whenever it can (a single
\* thread that is not blocked in a wait call takes its next step) and where
\* every process of the tree exits in the end.
SpecLive ==
  /\ Init
  /\ [][Next]_vars
  /\ WF_vars(Program)
  /\ \A p \in Procs : WF_vars(\E c \in ExitCodes : Exit(p, c))

(* ------------- the scopes entered by a caller, repeatedly ------------- *)

\* A caller, itself Python code that may have installed a SIGTERM handler
\* and may already be a subreaper, calls run_cron('cron'), and calls it
\* again after it returned.  Pids of reaped processes are free again.
run_cron_again ==
  /\ pc = "ret"
  /\ exc = "none"
  /\ rounds < MaxRounds
  /\ rounds' = rounds + 1
  /\ pc' = Entry("run_cron")
  /\ st' = [p \in Procs |-> IF st[p] = "reaped" THEN "none" ELSE st[p]]
  /\ parent' = [p \in Procs |-> IF st[p] = "reaped" THEN 0 ELSE parent[p]]
  /\ reaper' = [p \in Procs |-> IF st[p] = "reaped" THEN "sup" ELSE reaper[p]]
  /\ returncode' = -1
  /\ spawned' = <<>>
  /\ log' = <<>>
  /\ UNCHANGED <<argv, scripts, callargs, invoked, exc, exitstatus, subreaper,
                 handler, old_handler, process, code, rendered, service, sigLog,
                 handler0, flag0, others>>

InitScopes ==
  /\ argv = <<"cron">>
  /\ scripts = {}
  /\ pc = Entry("run_cron")
  /\ callargs = <<"cron">>
  /\ invoked = <<>>
  /\ exc = "none"
  /\ exitstatus = -1
  /\ flag0 \in BOOLEAN
  /\ subreaper = flag0
  /\ handler0 \in CallerHandlers
  /\ handler = handler0
  /\ old_handler = "None"
  /\ process = 0
  /\ returncode = -1
  /\ st = [p \in Procs |-> IF p <= MaxScopeProcs THEN "none" ELSE "off"]
  /\ parent = [p \in Procs |-> 0]
  /\ reaper = [p \in Procs |-> "sup"]
  /\ code = [p \in Procs |-> 0]
  /\ spawned = <<>>
  /\ rendered = <<>>
  /\ service = ""
  /\ log = <<>>
  /\ sigLog = <<>>
  /\ rounds = 1
  /\ others = PythonDispositions

NextScopes ==
  \/ ChildSubReaper_enter
  \/ GraceFulShutdown_getsignal
  \/ GraceFulShutdown_signal
  \/ GraceFulShutdown_popen
  \/ GraceFulShutdown_assign
  \/ run_cron_wait
  \/ GraceFulShutdown_exit
  \/ wait_for_children
  \/ ChildSubReaper_exit
  \/ run_cron_return
  \/ run_cron_again
  \/ Environment

SpecScopes == InitScopes /\ [][NextScopes]_vars


(* ============================ properties ============================== *)

\* dispatch called run_cron.
InRunCron == invoked # <<>> /\ invoked[1].fn = "run_cron"

\* The deliveries that found the forwarding handler installed.
Forwarded == {i \in 1..Len(sigLog) : sigLog[i].h = "FWD"}

\* The SIGTERMs the supervisor sent to its child.
Sent == Cardinality({i \in 1..Len(sigLog) : sigLog[i].out = "sent"})

\* The lines of wait_for_children that report a reaped process.
Reaped == {i \in 1..Len(log) : log[i].line = "terminated"}

\* GraceFulShutdown.__enter__ returned the child and __exit__ has run since.
ForwardScopeLeft ==
  process # 0 /\ pc \in {"csr_wait", "csr_unset", "csr_done", "ret", "exited"}

(* ------------------------------- C1 ----------------------------------- *)

\* C1: when ChildSubReaper.__exit__ has returned (the drain loop, then the
\* flag unset), no process spawned inside the scope, child or descendant,
\* is left running or as a zombie, whatever the shape of the tree and the
\* order of the exits.
C1_AllReapedAtExit ==
  pc = "csr_done" => \A p \in Procs : ~Live(p)

\* The drain loop reaped the child and at least one orphan before it ended.
C1_Witness ==
  /\ pc = "csr_done"
  /\ exc = "none"
  /\ Cardinality(Reaped) >= 2
  /\ \E i \in Reaped : parent[log[i].pid] # 0

(* ------------------------------- C2 ----------------------------------- *)

C3_AtMostOnce == Sent <= 1

\* C3 amended: every SIGTERM that reaches the supervisor while the
\* forwarding handler is installed, the child handle set and the child not
\* yet waited for sends one SIGTERM to the child, so that k deliveries send
\* k signals; no other delivery sends one.
C3_OnePerDelivery ==
  /\ \A i \in Forwarded :
       sigLog[i].cst \in {"running", "zombie"} => sigLog[i].out = "sent"
  /\ Sent = Cardinality({i \in Forwarded : sigLog[i].cst \in {"running", "zombie"}})

\* Two SIGTERMs were delivered while the child ran, and two were sent on.
C3_Witness ==
  /\ Sent = 2
  /\ \A i \in 1..2 : sigLog[i].cst = "running"

(* ------------------------------- C4 ----------------------------------- *)

\* C4: a SIGTERM that finds the forwarding handler installed and the child
\* handle not yet assigned does nothing: nothing is sent, nothing is raised.
C4_NoopBeforeHandle ==
  \A i \in Forwarded : sigLog[i].cst = "unset" => sigLog[i].out = "returned"

(* ------------------------------- C5 ----------------------------------- *)

\* C5: a SIGTERM that finds the forwarding handler installed and the child
\* already exited raises nothing in the supervisor, and, when the child has
\* been waited for, signals no pid.
C5_DeadChildSafe ==
  \A i \in Forwarded :
    /\ sigLog[i].cst = "zombie" => sigLog[i].out = "sent"
    /\ sigLog[i].cst = "reaped" => sigLog[i].out = "returned"

(* ------------------------------- C6 ----------------------------------- *)

\* C6: in run_cron the daemon is spawned with the subreaper flag set and the
\* forwarding handler installed, and as long as run_cron's supervisor lives
\* with the daemon or a descendant of it in existence the flag is set.
C6_ArmedBeforeSpawn ==
  InRunCron =>
    /\ \A i \in 1..Len(spawned) : spawned[i].flag /\ spawned[i].handler = "FWD"
    /\ (Alive /\ \E p \in Procs : Live(p)) => subreaper

\* The daemon was spawned and a process it forked is alive.
C6_Witness ==
  /\ InRunCron
  /\ Len(spawned) = 1
  /\ \E p \in Procs : Live(p) /\ parent[p] # 0

(* ------------------------------- C7 ----------------------------------- *)

\* C7: a SIGTERM delivered while run_cron is in p.wait() is sent on to the
\* daemon and leaves the supervisor in p.wait() with nothing raised; and
\* run_cron is past p.wait() only when the daemon has exited and been
\* waited for.
C7_WaitOutlastsSigterm ==
  /\ [][(pc = "p_wait" /\ Len(sigLog') = Len(sigLog) + 1) =>
          /\ sigLog'[Len(sigLog')].out = "sent"
          /\ pc' = "p_wait"
          /\ exc' = "none"]_vars
  /\ []((InRunCron /\ process # 0 /\ pc \in {"gs_exit", "csr_wait", "csr_unset",
                                             "csr_done", "ret", "exited"})
          => st[process] = "reaped")

\* The supervisor is in p.wait(), a SIGTERM was forwarded, the daemon runs on.
C7_Witness ==
  /\ pc = "p_wait"
  /\ st[process] = "running"
  /\ \E i \in Forwarded : sigLog[i].out = "sent"

(* ------------------------------- C8 ----------------------------------- *)

\* The launcher a position of the supervisor belongs to.
LauncherAt(at) ==
  CASE at \in {"rs_spawn", "rs_wait"} -> {"run_shell"}
    [] at \in {"ss_context", "ss_templatize", "ss_execute", "ss_check_call"} -> {"start_service"}
    [] at \in {"csr_enter", "gs_getsignal", "gs_signal", "gs_popen", "gs_assign",
               "p_wait", "gs_exit", "csr_wait", "csr_unset", "csr_done"} -> {"run_cron"}
    [] OTHER -> {"run_shell", "start_service", "run_cron"}

\* C8: dispatch calls one launcher, chosen by the argument vector: none ->
\* run_shell('/bin/bash'); 'cron' first -> run_cron; 'start' first ->
\* start_service, whose service is the second element; anything else ->
\* run_shell with that element as the command.  No second launcher is called.
C8_DispatchSelects ==
  /\ Len(invoked) <= 1
  /\ (pc \notin {"dispatch", "killed"}) => Len(invoked) = 1
  /\ invoked # <<>> =>
       /\ invoked[1].fn \in LauncherAt(pc)
       /\ argv = <<>> =>
            invoked[1].fn = "run_shell" /\ invoked[1].args = <<"/bin/bash">>
       /\ (argv # <<>> /\ argv[1] = "cron") => invoked[1].fn = "run_cron"
       /\ (argv # <<>> /\ argv[1] = "start") =>
            /\ invoked[1].fn = "start_service"
            /\ service # "" => service = argv[2]
       /\ (argv # <<>> /\ argv[1] \notin {"cron", "start"}) =>
            /\ invoked[1].fn = "run_shell"
            /\ invoked[1].args = argv
            /\ \A i \in 1..Len(spawned) :
                 spawned[i].cmd[1][Len(spawned[i].cmd[1])] = argv[1]

\* dispatch(['start', 'app']) ran start_service to its end with service 'app'.
C8_Witness ==
  /\ argv = <<"start", "app">>
  /\ service = "app"
  /\ pc = "exited"
  /\ Len(rendered) = 3

(* ------------------------------- C9 ----------------------------------- *)

\* C9: when the script run by run_shell exits with a non-zero status, the
\* supervisor does not end with status 0.
C9_ScriptStatusPropagates ==
  (pc = "exited" /\ invoked[1].fn = "run_shell" /\ returncode > 0) => exitstatus # 0


(* ------------------------------- C10 ---------------------------------- *)

\* C10: a caller that starts with the subreaper flag unset and has entered
\* and left the ChildSubReaper scope twice in sequence finds the flag unset,
\* as if the scope had never been entered.
C10_TwiceLeavesUnset ==
  (flag0 = FALSE /\ rounds >= 2 /\ exc = "none" /\ pc \in {"csr_done", "ret"})
    => subreaper = flag0

\* The second scope has been left, with orphans reaped in it.
C10_Witness ==
  /\ flag0 = FALSE
  /\ rounds = 2
  /\ exc = "none"
  /\ pc = "ret"
  /\ Cardinality(Reaped) >= 1

(* ------------------------------- C11 ---------------------------------- *)

\* start_service rendered its files and started the daemon command.
InStartService == invoked # <<>> /\ invoked[1].fn = "start_service"

\* C11: start_service has rendered uwsgi.ini, nginx.conf and
\* supervisord.conf, in that order, when it starts the daemon; once the
\* daemon is started it can return, whether the daemon process has
\* terminated or not; and the web-service profile changes neither the
\* subreaper flag nor the SIGTERM handler.
C11_StartsAndReturns ==
  InStartService =>
    /\ \A i \in 1..Len(spawned) : rendered = ServiceFiles
    /\ pc = "ss_check_call" => ENABLED execute_wait
    /\ subreaper = flag0
    /\ handler = handler0

(* ------------------------------- C12 ---------------------------------- *)

\* The positions at which a launcher starts its child.
SpawnPoints == {"rs_spawn", "ss_execute", "gs_popen"}

\* The step is a spawn that failed: the launcher leaves the spawn statement
\* with no child started and no signal delivered.
SpawnFailedStep ==
  /\ pc \in SpawnPoints
  /\ pc' # pc
  /\ spawned' = spawned
  /\ sigLog' = sigLog

\* C12: in each of the three launchers a spawn that fails raises an error;
\* an error raised in a launcher is never cleared, by execute, run_shell,
\* GraceFulShutdown or ChildSubReaper.__exit__; it leaves dispatch, and the
\* supervisor then ends with a non-zero exit status.
C12_SpawnFailureFatal ==
  /\ [][SpawnFailedStep => exc' = "OSError"]_vars
  /\ [][exc # "none" => exc' # "none"]_vars
  /\ [][(exc # "none" /\ pc = "ret" /\ pc' # pc) => pc' \in {"exited", "killed"}]_vars
  /\ []((pc = "exited" /\ exc # "none") => exitstatus > 0)

\* The spawn of the cron daemon failed and the supervisor has ended.
C12_Witness ==
  /\ InRunCron
  /\ pc = "exited"
  /\ exc = "OSError"
  /\ spawned = <<>>
  /\ sigLog = <<>>
  /\ exitstatus = 1

(* ------------------------------- C13 ---------------------------------- *)

\* dispatch called run_shell.
InRunShell == invoked # <<>> /\ invoked[1].fn = "run_shell"

\* C13: the command run_shell executes is its argument vector with the
\* first element replaced by its path inside the scripts directory when a
\* file of that name exists there, and left as it is otherwise; the other
\* elements are unchanged; the child's working directory is the scripts
\* directory; run_shell returns only when the child has exited and been
\* waited for; the SIGTERM handler and the subreaper flag stay as they were.
C13_ScriptResolution ==
  InRunShell =>
    /\ \A i \in 1..Len(spawned) :
         /\ Len(spawned[i].cmd) = Len(callargs)
         /\ callargs[1] \in scripts => spawned[i].cmd[1] = <<"/scripts", callargs[1]>>
         /\ callargs[1] \notin scripts => spawned[i].cmd[1] = <<callargs[1]>>
         /\ \A k \in 2..Len(callargs) : spawned[i].cmd[k] = <<callargs[k]>>
         /\ spawned[i].cwd = "/scripts"
    /\ (pc \in {"ret", "exited"} /\ exc = "none") =>
         Len(spawned) = 1 /\ st[ChildPid] = "reaped"
    /\ handler = handler0
    /\ subreaper = flag0

\* run_shell('migrate', '--fake') ran the file of the scripts directory to
\* its end.
C13_Witness ==
  /\ InRunShell
  /\ callargs = <<"migrate", "--fake">>
  /\ "migrate" \in scripts
  /\ pc = "exited"
  /\ exc = "none"
  /\ spawned[1].cmd = << <<"/scripts", "migrate">>, <<"--fake">> >>

(* ------------------------------- C14 ---------------------------------- *)

\* The lines wait_for_children logged for process p.
LinesFor(p) == {i \in Reaped : log[i].pid = p}

\* C14: a process forked by the daemon and orphaned by the daemon's exit is
\* a child of the supervisor; while it runs the drain loop sleeps in
\* os.wait() and does not end; when it exits the loop reaps it and logs one
\* line with its pid and exit status; the line that reports the end of the
\* children comes last, when no process of the tree is left.
C14_DrainWaitsForOrphans ==
  /\ [][(pc = "csr_wait" /\ Blocked) => pc' # "csr_unset"]_vars
  /\ [][(Len(log') = Len(log) + 1 /\ log'[Len(log')].line = "terminated") =>
          /\ st[log'[Len(log')].pid] = "zombie"
          /\ st'[log'[Len(log')].pid] = "reaped"
          /\ log'[Len(log')].status = code[log'[Len(log')].pid]
          /\ LinesFor(log'[Len(log')].pid) = {}]_vars
  /\ [](InRunCron =>
          /\ pc \in {"csr_unset", "csr_done"} =>
               /\ \A p \in Procs : ~Live(p)
               /\ log[Len(log)].line = "all"
               /\ \A i \in 1..(Len(log) - 1) : log[i].line = "terminated"
          /\ \A p \in Procs :
               (parent[p] # 0 /\ reaper[p] = "sup" /\ st[p] = "reaped")
                 => Cardinality(LinesFor(p)) = 1)

\* The daemon forked a process and exited first; the loop has reaped the
\* orphan, logged it with its status 1, and ended.
C14_Witness ==
  /\ InRunCron
  /\ pc = "csr_done"
  /\ exc = "none"
  /\ Len(log) = 2
  /\ log[1].line = "terminated"
  /\ log[1].status = 1
  /\ parent[log[1].pid] = process
  /\ log[2].line = "all"

(* ------------------------------- C15 ---------------------------------- *)

\* p.wait() has returned: the daemon was spawned, handed to the body of the
\* inner with, and has terminated.
DaemonTerminated ==
  /\ InRunCron
  /\ process # 0
  /\ pc \in {"gs_exit", "csr_wait", "csr_unset", "csr_done", "ret", "exited"}

C16_FlagRestored ==
  pc = "csr_done" => subreaper = flag0

(* ------------------------------- C17 ---------------------------------- *)

\* The step is a SIGTERM delivery that interrupted os.wait().
WaitInterrupted ==
  /\ Len(sigLog') = Len(sigLog) + 1
  /\ sigLog'[Len(sigLog')].eintr

\* C17: when os.wait() in the drain loop fails because it was interrupted,
\* the loop ends there as it does when no child is left: the closing line
\* is logged, os.wait() is not called again, no error is raised, and the
\* next step of __exit__ unsets the flag; the children that were running
\* are left as they were.
C17_AnyWaitFailureEndsLoop ==
  /\ [][WaitInterrupted =>
          /\ pc = "csr_wait" /\ Blocked
          /\ pc' = "csr_unset"
          /\ exc' = exc
          /\ log' = Append(log, [line |-> "all", pid |-> 0, status |-> 0])
          /\ st' = st]_vars
  /\ [][(pc = "csr_unset" /\ pc' \notin {pc, "killed"} /\ sigLog' = sigLog) =>
          /\ pc' = "csr_done"
          /\ ~subreaper'
          /\ exc' = exc /\ st' = st]_vars

\* The loop was interrupted and the scope left, the flag unset and nothing
\* raised, with a child of the supervisor still alive.
C17_Witness ==
  /\ pc = "csr_done"
  /\ exc = "none"
  /\ ~subreaper
  /\ \E i \in 1..Len(sigLog) : sigLog[i].eintr
  /\ \E p \in Procs : Live(p) /\ reaper[p] = "sup"

(* ------------------------------- C18 ---------------------------------- *)

\* The spawn of the cron daemon failed in GraceFulShutdown.__enter__ and
\* its OSError is propagating (the only OSError raised with no child).
CronSpawnFailed ==
  /\ InRunCron
  /\ spawned = <<>>
  /\ exc = "OSError"

\* C18: when the failure of the spawn of the cron daemon has left run_cron,
\* the SIGTERM handler is the one that was in place before the scope; and a
\* SIGTERM delivered after the failed spawn does not run the forwarding
\* handler with the child handle unset.
C18_FailedSpawnRestores ==
  /\ []((CronSpawnFailed /\ pc \in {"ret", "exited"}) => handler = handler0)
  /\ [][(CronSpawnFailed /\ Len(sigLog') = Len(sigLog) + 1) =>
          ~(sigLog'[Len(sigLog')].h = "FWD" /\ sigLog'[Len(sigLog')].cst = "unset")]_vars

(* ------------------------------- C19 ---------------------------------- *)

\* C19: the handlers of the signals other than SIGTERM are, at every point
\* of a GraceFulShutdown scope and after it, the ones the interpreter
\* started with; and graceful_shutdown_handler called with the code of
\* another signal sends nothing to the child and raises nothing, whatever
\* the child handle and the child's state are.
C19_OnlySigterm ==
  /\ others = PythonDispositions
  /\ \A s \in OtherSignals : Disposition(s) # "FWD"
  /\ \A signal_code \in OtherSignals, proc \in 0..MaxProcs,
        cst \in {"unset", "running", "zombie", "reaped"} :
       graceful_shutdown_handler(signal_code, proc, cst) = "returned"

\* A scope was entered and left and a SIGTERM was forwarded in it.
C19_Witness ==
  /\ InRunCron
  /\ ForwardScopeLeft
  /\ handler = handler0
  /\ Sent >= 1

(* ------------------------------- C20 ---------------------------------- *)

\* The processes the launcher itself started that have not been waited for.
SupervisedAlive == {p \in Procs : parent[p] = 0 /\ Live(p)}

\* C20: in a launcher invocation the launcher starts its child at most
\* once, whether that child then runs, exits or fails, and so at most one
\* process started by the launcher itself is alive at any time; the
\* processes with another parent were forked by that child or below it.
C20_OneSupervisedChild ==
  /\ [](/\ Len(spawned) <= 1
        /\ Cardinality(SupervisedAlive) <= 1
        /\ \A p \in SupervisedAlive : spawned # <<>> /\ p = ChildPid)
  /\ [][spawned # <<>> => spawned' = spawned]_vars

\* The launcher's child has exited and been waited for, a process it forked
\* lives on, and the launcher has returned without a second spawn.
C20_Witness ==
  /\ Len(spawned) = 1
  /\ st[ChildPid] = "reaped"
  /\ pc = "exited"
  /\ \E p \in Procs : Live(p) /\ parent[p] = ChildPid

(* ------------------------------- C21 ---------------------------------- *)

\* The supervisor is in the drain phase of run_cron, the inner scope closed.
InDrain == DaemonTerminated /\ pc = "csr_wait"

NoHandlerError ==
  \A i \in 1..Len(sigLog) : sigLog[i].out \notin {"AttributeError", "ESRCH"}

\* C23: a non-zero exit status of the cron daemon or of the supervisord
\* command raises nothing.  With the cron daemon ended non-zero, p.wait()
\* returns, the handler is restored, the loop drains, the flag is unset and
\* run_cron returns; with supervisord ended non-zero, execute passes over
\* the error of check_call and start_service returns; the supervisor then
\* ends with status 0.
C23_NonZeroAbsorbed ==
  /\ [][(pc \in {"p_wait", "ss_check_call"} /\ returncode' # returncode) =>
          /\ exc' = "none"
          /\ pc' = IF pc = "p_wait" THEN "gs_exit" ELSE "ret"]_vars
  /\ []((returncode > 0 /\ NoHandlerError /\ (InRunCron \/ InStartService)
           /\ pc \in {"csr_done", "ret", "exited"}) =>
          /\ exc = "none"
          /\ handler = handler0
          /\ ~subreaper
          /\ \A p \in SupChildren : p # ChildPid
          /\ InRunCron => (log # <<>> /\ log[Len(log)].line = "all")
          /\ pc = "exited" => exitstatus = 0)

\* The cron daemon ended with status 1 and run_cron has returned.
C23_Witness ==
  /\ InRunCron
  /\ returncode = 1
  /\ pc = "exited"
  /\ exc = "none"
  /\ exitstatus = 0

(* ------------------------------- C24 ---------------------------------- *)

\* C24: what the launcher works on.  start_service takes as service the
\* element that follows 'start', never the keyword; given ['start'] alone
\* it fails with nothing rendered and nothing started.  run_cron starts the
\* same daemon command whatever follows 'cron'.  run_shell runs the whole
\* vector, first element included, as the command.
C24_LauncherPayload ==
  /\ InStartService =>
       /\ service # "" => (Len(argv) >= 2 /\ service = argv[2])
       /\ Len(argv) >= 2 => (pc \notin {"ss_context", "killed"} => service = argv[2])
       /\ Len(argv) = 1 =>
            /\ service = "" /\ rendered = <<>> /\ spawned = <<>>
            /\ pc \in {"ss_context", "ret", "exited", "killed"}
            /\ pc \in {"ret", "exited"} => exc = "IndexError"
  /\ InRunCron =>
       \A i \in 1..Len(spawned) : spawned[i].cmd = << <<"sudo">>, <<"cron">>, <<"-f">> >>
  /\ (InRunShell /\ argv # <<>>) =>
       \A i \in 1..Len(spawned) :
         /\ Len(spawned[i].cmd) = Len(argv)
         /\ spawned[i].cmd[1][Len(spawned[i].cmd[1])] = argv[1]
         /\ \A k \in 2..Len(argv) : spawned[i].cmd[k] = <<argv[k]>>

\* dispatch(['start']) has ended: IndexError, no file rendered, no daemon.
C24_Witness ==
  /\ argv = <<"start">>
  /\ pc = "exited"
  /\ exc = "IndexError"
  /\ rendered = <<>>
  /\ spawned = <<>>
  /\ exitstatus = 1

====
